---- MODULE Spec2Model ----
(***************************************************************************)
(* Model of eslint-doc-generator: the rule-doc header splicer and the      *)
(* generate() run of the generator, and the CONFIGS and TYPE legends of    *)
(* lib/legend.ts.                                                          *)
(*                                                                         *)
(* Strings are sequences of one-character strings, so that startsWith,     *)
(* includes, split and join are computed as JavaScript computes them.      *)
(***************************************************************************)
EXTENDS Integers, Sequences, FiniteSets, TLC

VARIABLES
    \* replaceOrCreateHeader called on its own
    lines,            \* the doc's lines (mutated in place by the splicer)
    newHeaderLines,   \* lines of the new header
    marker,           \* marker to indicate the end of the header
    lines0,           \* the lines before the first call
    lines1,           \* the lines after the first call
    calls,            \* number of calls made so far
    \* a run of generate()
    plugin,           \* the loaded plugin: rules, in enumeration order
    check,            \* GenerateOptions.check as given by the caller
    docs,             \* file system: rule name -> rule doc file (if any)
    docs0,            \* the rule doc files when the run started
    readme,           \* file system: the README file (if any)
    pc,               \* where generate() is
    details,          \* RuleDetails[] gathered from the plugin
    i,                \* number of rules the doc loop has gone through
    exitCode,         \* process.exitCode (0 while it has not been set)
    stderr,           \* what console.error has printed
    written,          \* the writeFileSync calls made, in order
    thrown,           \* the error that ended generate(), if any
    \* a call of one of the legend functions of LEGENDS
    legendPlugin,     \* the plugin: configs (names, in order) and rules
    configEmojis,     \* ConfigEmojis: [config, emoji] entries
    ignoreConfig,     \* names of the configs to ignore
    urlConfigs,       \* link to the configs documentation, if any
    legends,          \* the lines the legend function returned
    legendPc          \* "call", then "returned" or "threw"

spliceVars == <<lines, newHeaderLines, marker, lines0, lines1, calls>>

generateVars == <<plugin, check, docs, docs0, readme, pc, details, i,
                  exitCode, stderr, written, thrown>>

legendVars == <<legendPlugin, configEmojis, ignoreConfig, urlConfigs, legends,
                legendPc>>

vars == <<spliceVars, generateVars, legendVars>>

----------------------------------------------------------------------------
(* Bounds *)

MaxLines == 3          \* lines of a document handed to the splicer
MaxHeaderLines == 2    \* lines of a new header handed to the splicer
MaxRules == 2          \* entries of plugin.rules in a run of generate()
MaxConfigs == 2        \* configs of the plugin handed to the CONFIGS legend
MaxConfigEmojis == 2   \* entries of the ConfigEmojis list
MaxTypeRules == 3      \* rules of the plugin handed to the TYPE legend

----------------------------------------------------------------------------
(* Strings *)

HEADING_SIGIL == <<"#", " ">>
OPTIONS_HEADING == <<"#","#"," ","O","p","t","i","o","n","s">>
END_RULE_HEADER_MARKER ==
    <<"<","!","-","-"," ","e","n","d"," ","r","u","l","e"," ",
      "h","e","a","d","e","r"," ","-","-",">">>
NEWLINE == "\n"

\* String.prototype.startsWith
StartsWith(str, prefix) ==
    /\ Len(str) >= Len(prefix)
    /\ SubSeq(str, 1, Len(prefix)) = prefix

\* String.prototype.includes
Includes(str, content) ==
    \E k \in 0..(Len(str) - Len(content)) :
        SubSeq(str, k + 1, k + Len(content)) = content

\* Array.prototype.indexOf (0-based, -1 when absent, strict equality)
RECURSIVE IndexOfFrom(_, _, _)
IndexOfFrom(arr, x, k) ==
    IF k > Len(arr) THEN -1
    ELSE IF arr[k] = x THEN k - 1
    ELSE IndexOfFrom(arr, x, k + 1)

IndexOf(arr, x) == IndexOfFrom(arr, x, 1)

Min(a, b) == IF a < b THEN a ELSE b
Max(a, b) == IF a > b THEN a ELSE b

\* Array.prototype.splice(start, deleteCount, ...items), for start >= 0:
\* the array after the call.
Splice(arr, start, deleteCount, items) ==
    LET s == Min(start, Len(arr))
        d == Min(Max(deleteCount, 0), Len(arr) - s)
    IN SubSeq(arr, 1, s) \o items \o SubSeq(arr, s + d + 1, Len(arr))

\* Array.prototype.join(sep) on an array of strings
RECURSIVE Join(_, _)
Join(arr, sep) ==
    IF Len(arr) = 0 THEN <<>>
    ELSE IF Len(arr) = 1 THEN arr[1]
    ELSE arr[1] \o <<sep>> \o Join(Tail(arr), sep)

\* String.prototype.split(sep) for a one-character separator
RECURSIVE SplitFrom(_, _, _, _)
SplitFrom(str, sep, k, cur) ==
    IF k > Len(str) THEN <<cur>>
    ELSE IF str[k] = sep THEN <<cur>> \o SplitFrom(str, sep, k + 1, <<>>)
    ELSE SplitFrom(str, sep, k + 1, Append(cur, str[k]))

Split(str, sep) == SplitFrom(str, sep, 1, <<>>)

----------------------------------------------------------------------------
(* replaceOrCreateHeader *)

\* The header is cut one line short: the old marker line is kept.
replaceOrCreateHeaderKeepsMarker(ls, newHeader, mk) ==
    LET markerLineIndex == IndexOf(ls, mk)
        ls1 == IF markerLineIndex = -1 /\ Len(ls) > 0
                  /\ StartsWith(ls[1], HEADING_SIGIL)
               THEN Splice(ls, 0, 1, <<>>)
               ELSE ls
    IN Splice(ls1, 0, markerLineIndex, newHeader)

\* Any first line is deleted when there is no marker, heading or not.
replaceOrCreateHeaderDropsFirst(ls, newHeader, mk) ==
    LET markerLineIndex == IndexOf(ls, mk)
        ls1 == IF markerLineIndex = -1 /\ Len(ls) > 0
               THEN Splice(ls, 0, 1, <<>>)
               ELSE ls
    IN Splice(ls1, 0, markerLineIndex + 1, newHeader)

\* The new header is appended after the old one instead of replacing it.
replaceOrCreateHeaderInserts(ls, newHeader, mk) ==
    LET markerLineIndex == IndexOf(ls, mk)
        ls1 == IF markerLineIndex = -1 /\ Len(ls) > 0
                  /\ StartsWith(ls[1], HEADING_SIGIL)
               THEN Splice(ls, 0, 1, <<>>)
               ELSE ls
    IN Splice(ls1, 0, 0, newHeader)

\* The lines of the doc after the call (the code mutates `lines` in place).
replaceOrCreateHeader(ls, newHeader, mk) ==
    LET markerLineIndex == IndexOf(ls, mk)
        \* No marker present so delete any existing title.
        ls1 == IF markerLineIndex = -1 /\ Len(ls) > 0
                  /\ StartsWith(ls[1], HEADING_SIGIL)
               THEN Splice(ls, 0, 1, <<>>)
               ELSE ls
    IN \* Replace header section (or create at top if missing).
       Splice(ls1, 0, markerLineIndex + 1, newHeader)

----------------------------------------------------------------------------
(* Values *)

\* An optional value: absent (undefined) or present.
None == <<>>
Some(v) == <<v>>

\* The sequences of at most n elements of S.
SeqsUpTo(S, n) == UNION { [1..k -> S] : k \in 0..n }

\* a ?? b
Coalesce(opt, default) == IF opt = None THEN default ELSE opt[1]

----------------------------------------------------------------------------
(* The state of the parts that are not running *)

GenerateIdle ==
    /\ plugin = [rules |-> <<>>]
    /\ check = FALSE
    /\ docs = <<>>
    /\ docs0 = <<>>
    /\ readme = None
    /\ pc = "idle"
    /\ details = <<>>
    /\ i = 0
    /\ exitCode = 0
    /\ stderr = <<>>
    /\ written = <<>>
    /\ thrown = "none"

SpliceIdle ==
    /\ lines = <<>>
    /\ newHeaderLines = <<>>
    /\ marker = END_RULE_HEADER_MARKER
    /\ lines0 = <<>>
    /\ lines1 = <<>>
    /\ calls = 0

LegendIdle ==
    /\ legendPlugin = [configs |-> None, rules |-> None]
    /\ configEmojis = <<>>
    /\ ignoreConfig = {}
    /\ urlConfigs = None
    /\ legends = <<>>
    /\ legendPc = "idle"

----------------------------------------------------------------------------
(* Collaborators of generate() *)

\* hasOptions(schema): the schema declares at least one option.
hasOptions(schema) == Len(schema) > 0

\* getAllNamedOptions(schema): the property names of the schema's items.
RECURSIVE getAllNamedOptions(_)
getAllNamedOptions(schema) ==
    IF Len(schema) = 0 THEN <<>>
    ELSE schema[1].properties \o getAllNamedOptions(Tail(schema))

\* generateRuleHeaderLines: the title, then the end-of-header marker.
generateRuleHeaderLines(description, name) ==
    << HEADING_SIGIL
         \o (IF description = None THEN name
             ELSE description[1] \o <<" ", "(">> \o name \o <<")">>),
       <<>>,
       END_RULE_HEADER_MARKER >>

\* updateRulesList: the README with one row per rule of the details.
updateRulesList(ds, oldReadme) ==
    [rows |-> [k \in 1..Len(ds) |-> ds[k].name], around |-> oldReadme]

\* format(str, pluginPath): the output of prettier for str, left uninterpreted.
format(str) == [parser |-> "markdown", source |-> str]

----------------------------------------------------------------------------
(* expectContent *)

\* The failure message printed for a rule doc, as the pieces of the template
\* string (the quotes around the rule name are left out).
FailureMessage(ruleName, content, expected) ==
    << ruleName, " rule doc should ",
       IF expected THEN "" ELSE "not ", "have included: ", content >>

\* The check is only made for content that is expected to be present.
expectContentOnlyExpected(out, ruleName, contents, content, expected) ==
    IF expected /\ ~Includes(contents, content)
    THEN [stderr |-> Append(out.stderr,
                            FailureMessage(ruleName, content, expected)),
          exitCode |-> 1]
    ELSE out

\* The exit code is assigned on success too.
expectContentAssignsAlways(out, ruleName, contents, content, expected) ==
    IF Includes(contents, content) # expected
    THEN [stderr |-> Append(out.stderr,
                            FailureMessage(ruleName, content, expected)),
          exitCode |-> 1]
    ELSE [stderr |-> out.stderr, exitCode |-> 0]

\* out: the output of console.error and process.exitCode before the call;
\* the value is the two after the call.
expectContent(out, ruleName, contents, content, expected) ==
    IF Includes(contents, content) # expected
    THEN [stderr |-> Append(out.stderr,
                            FailureMessage(ruleName, content, expected)),
          exitCode |-> 1]
    ELSE out

----------------------------------------------------------------------------
(* generate() *)

\* Name of the k-th entry of plugin.rules.
Digit == <<"1", "2", "3", "4", "5">>
RuleName(k) == <<"n", "o", "-", Digit[k]>>

OptFoo == <<"f","o","o">>
OptBar == <<"b","a","r">>

SchemaNone == <<>>
SchemaUnnamed == << [properties |-> <<>>] >>
SchemaNamed == << [properties |-> <<OptFoo, OptBar>>] >>

Meta(docsOpt, fixable, hasSuggestions, deprecated, schema) ==
    [docs |-> docsOpt, fixable |-> fixable,
     hasSuggestions |-> hasSuggestions, deprecated |-> deprecated,
     schema |-> schema]

Docs(description, requiresTypeChecking) ==
    [description |-> description,
     requiresTypeChecking |-> requiresTypeChecking]

\* The rule records a plugin may expose.
RuleRecords ==
    { \* a function-style rule
      [typeof |-> "function", meta |-> None],
      \* an object without meta
      [typeof |-> "object", meta |-> None],
      \* an object with meta but without meta.docs
      [typeof |-> "object",
       meta |-> Some(Meta(None, None, None, None, SchemaNone))],
      \* rules with full metadata
      [typeof |-> "object",
       meta |-> Some(Meta(Some(Docs(Some(<<"d">>), None)),
                          Some("code"), None, None, SchemaNone))],
      [typeof |-> "object",
       meta |-> Some(Meta(Some(Docs(None, Some(TRUE))),
                          Some("other"), Some(TRUE), Some(TRUE),
                          SchemaUnnamed))],
      [typeof |-> "object",
       meta |-> Some(Meta(Some(Docs(Some(OptFoo), None)),
                          None, None, None, SchemaNamed))] }

\* The rule doc files a plugin's docs directory may hold.
DocContents ==
    { Join(<< <<"#"," ","T">>, <<"t","e","x","t">> >>, NEWLINE),
      Join(<< OPTIONS_HEADING >>, NEWLINE),
      Join(<< OPTIONS_HEADING, <<"f","o","o"," ","b","a","r">>,
              END_RULE_HEADER_MARKER, <<"t","e","x","t">> >>, NEWLINE),
      Join(<< <<"#"," ","T">>, END_RULE_HEADER_MARKER,
              <<"#","#",OPTIONS_HEADING[3]>> \o Tail(OPTIONS_HEADING),
              <<"U","s","e"," ","f","o","o","b","a","r",".">> >>, NEWLINE) }

ReadmeContents == { <<"#"," ","p","l","u","g","i","n">> }

Files(S) == { None } \cup { Some(c) : c \in S }

\* generate() is called: the plugin is loaded, nothing else has happened.
GenerateInit ==
    /\ \E n \in 0..MaxRules :
          /\ \E rs \in [1..n -> RuleRecords] :
                plugin = [rules |-> [k \in 1..n |->
                                       [name |-> RuleName(k), rule |-> rs[k]]]]
          /\ docs \in [{RuleName(k) : k \in 1..n} -> Files(DocContents)]
    /\ check \in BOOLEAN
    /\ docs0 = docs
    /\ readme \in Files(ReadmeContents)
    /\ pc = "start"
    /\ details = <<>>
    /\ i = 0
    /\ exitCode = 0
    /\ stderr = <<>>
    /\ written = <<>>
    /\ thrown = "none"

\* Boolean(nameAndRule[1].meta)
HasMeta(nameAndRule) == nameAndRule.rule.meta # None

\* The map callback of the detail gathering; it reads rule.meta.docs.
ToRuleDetails(nameAndRule) ==
    LET meta == nameAndRule.rule.meta[1]
    IN [name |-> nameAndRule.name,
        description |-> meta.docs[1].description,
        fixable |-> IF meta.fixable # None
                    THEN meta.fixable[1] \in {"code", "whitespace"}
                    ELSE FALSE,
        hasSuggestions |-> Coalesce(meta.hasSuggestions, FALSE),
        requiresTypeChecking |->
            Coalesce(meta.docs[1].requiresTypeChecking, FALSE),
        deprecated |-> Coalesce(meta.deprecated, FALSE),
        schema |-> meta.schema]

\* Object.entries(plugin.rules).filter(...).map(...)
Gathered(entries) ==
    LET kept == SelectSeq(entries, HasMeta)
    IN [k \in 1..Len(kept) |-> ToRuleDetails(kept[k])]

\* Reading .description of an undefined meta.docs is a TypeError.
GatherThrows(entries) ==
    \E k \in 1..Len(entries) :
        HasMeta(entries[k]) /\ entries[k].rule.meta[1].docs = None

\* Gather details about rules.
GatherDetails ==
    /\ pc = "start"
    /\ IF GatherThrows(plugin.rules)
       THEN /\ pc' = "threw"
            /\ thrown' = "TypeError"
            /\ UNCHANGED details
       ELSE /\ pc' = "rules"
            /\ details' = Gathered(plugin.rules)
            /\ UNCHANGED thrown
    /\ UNCHANGED <<plugin, check, docs, docs0, readme, i, exitCode, stderr,
                   written>>
    /\ UNCHANGED <<spliceVars, legendVars>>

\* Each rule option is mentioned.
RECURSIVE ExpectNamedOptions(_, _, _, _)
ExpectNamedOptions(out, ruleName, contents, namedOptions) ==
    IF Len(namedOptions) = 0 THEN out
    ELSE ExpectNamedOptions(
             expectContent(out, ruleName, contents, namedOptions[1], TRUE),
             ruleName, contents, Tail(namedOptions))

\* The freshly written text is checked.
CheckedContentsUpdated(contents, newLines) == Join(newLines, NEWLINE)

\* The text handed to the checks of a rule doc: what was read.
CheckedContents(contents, newLines) == contents

\* Check for potential issues with the rule doc.
CheckRuleDoc(out, name, contents, schema) ==
    ExpectNamedOptions(
        expectContent(out, name, contents, OPTIONS_HEADING,
                      hasOptions(schema)),
        name, contents, getAllNamedOptions(schema))

DocPath(name) == <<"docs", "rules", name>>
ReadmePath == <<"README.md">>

\* One turn of the loop that updates the rule doc of each rule.
UpdateRuleDoc ==
    /\ pc = "rules"
    /\ i < Len(details)
    /\ LET name == details[i + 1].name
           description == details[i + 1].description
           schema == details[i + 1].schema
       IN IF docs[name] = None
          THEN \* readFileSync throws
               /\ pc' = "threw"
               /\ thrown' = "ENOENT"
               /\ UNCHANGED <<docs, i, exitCode, stderr, written>>
          ELSE LET contents == docs[name][1]
                   newLines ==
                       replaceOrCreateHeader(
                           Split(contents, NEWLINE),
                           generateRuleHeaderLines(description, name),
                           END_RULE_HEADER_MARKER)
                   data == format(Join(newLines, NEWLINE))
                   out == CheckRuleDoc(
                              [stderr |-> stderr, exitCode |-> exitCode],
                              name, CheckedContents(contents, newLines),
                              schema)
               IN /\ docs' = [docs EXCEPT ![name] = Some(data)]
                  /\ written' = Append(written, [path |-> DocPath(name),
                                                 data |-> data])
                  /\ stderr' = out.stderr
                  /\ exitCode' = out.exitCode
                  /\ i' = i + 1
                  /\ UNCHANGED <<pc, thrown>>
    /\ UNCHANGED <<plugin, check, docs0, readme, details>>
    /\ UNCHANGED <<spliceVars, legendVars>>

\* Update the rules list in the README.
UpdateReadme ==
    /\ pc = "rules"
    /\ i = Len(details)
    /\ IF readme = None
       THEN /\ pc' = "threw"
            /\ thrown' = "ENOENT"
            /\ UNCHANGED <<readme, written>>
       ELSE LET data == format(updateRulesList(details, readme[1]))
            IN /\ readme' = Some(data)
               /\ written' = Append(written, [path |-> ReadmePath,
                                              data |-> data])
               /\ pc' = "done"
               /\ UNCHANGED thrown
    /\ UNCHANGED <<plugin, check, docs, docs0, details, i, exitCode, stderr>>
    /\ UNCHANGED <<spliceVars, legendVars>>

Init == GenerateInit /\ SpliceIdle /\ LegendIdle

Next == GatherDetails \/ UpdateRuleDoc \/ UpdateReadme

Spec == Init /\ [][Next]_vars

----------------------------------------------------------------------------
(* Claims about generate() *)

\* The failures printed for one rule, in order.
MessagesOf(name) == SelectSeq(stderr, LAMBDA m : m[1] = name)

\* The rules the doc loop has gone through.
Processed == 1..i

\* The text of a rule doc as it was before the run.
Before(name) == docs0[name][1]

NoOptions(schema) == ~hasOptions(schema) /\ getAllNamedOptions(schema) = <<>>

\* C4 (as stated): for a rule whose schema declares no options the
\* "Options" section check never reports a failure and never sets the
\* failure exit status, whatever the rule doc contains.
C4_NoOptionsNeverFails ==
    /\ \A k \in Processed :
          NoOptions(details[k].schema) => MessagesOf(details[k].name) = <<>>
    /\ (\A k \in Processed : NoOptions(details[k].schema)) => exitCode = 0

\* C4 (amended): for a rule whose schema declares no options the "Options"
\* section check reports a failure, and sets the failure exit status,
\* exactly when the doc read before the update contains "## Options".
C4_NoOptionsFailsIffHeading ==
    /\ \A k \in Processed :
          NoOptions(details[k].schema) =>
              IF Includes(Before(details[k].name), OPTIONS_HEADING)
              THEN /\ MessagesOf(details[k].name) =
                         << FailureMessage(details[k].name,
                                           OPTIONS_HEADING, FALSE) >>
                   /\ exitCode = 1
              ELSE MessagesOf(details[k].name) = <<>>
    /\ (\A k \in Processed :
           /\ NoOptions(details[k].schema)
           /\ ~Includes(Before(details[k].name), OPTIONS_HEADING))
          => exitCode = 0

C4_Witness ==
    /\ i = 2
    /\ NoOptions(details[1].schema)
    /\ NoOptions(details[2].schema)
    /\ Includes(Before(details[1].name), OPTIONS_HEADING)
    /\ ~Includes(Before(details[2].name), OPTIONS_HEADING)
    /\ Len(stderr) = 1
    /\ exitCode = 1

\* The failures C5 expects for a rule with options, from the text read
\* before the update.
ExpectedOptionFailures(name, schema) ==
    LET before == Before(name)
        named == getAllNamedOptions(schema)
        unmentioned == SelectSeq(named, LAMBDA o : ~Includes(before, o))
    IN (IF Includes(before, OPTIONS_HEADING) THEN <<>>
        ELSE << FailureMessage(name, OPTIONS_HEADING, TRUE) >>)
       \o [k \in 1..Len(unmentioned) |->
              FailureMessage(name, unmentioned[k], TRUE)]

\* C5: for a rule with at least one option the checks read the doc as it
\* was before the update: a missing "## Options" is flagged, and each named
\* option that does not occur in that text is flagged once, whether or not
\* the heading is there; with the heading and every name, nothing is flagged.
C5_OptionsCheckedBeforeUpdate ==
    \A k \in Processed :
        hasOptions(details[k].schema) =>
            MessagesOf(details[k].name) =
                ExpectedOptionFailures(details[k].name, details[k].schema)

C5_Witness ==
    /\ i >= 1
    /\ getAllNamedOptions(details[1].schema) = <<OptFoo, OptBar>>
    /\ Before(details[1].name) = OPTIONS_HEADING
    /\ Includes(written[1].data.source, OptFoo)
    /\ MessagesOf(details[1].name) =
           << FailureMessage(details[1].name, OptFoo, TRUE),
              FailureMessage(details[1].name, OptBar, TRUE) >>

\* generate() ends early only for a fatal error, never for a failed check.
StopsOnlyOnFatalError ==
    pc = "threw" =>
        \/ thrown = "TypeError" /\ GatherThrows(plugin.rules)
        \/ /\ thrown = "ENOENT"
           /\ IF i < Len(details) THEN docs0[details[i + 1].name] = None
              ELSE readme = None

\* Every rule doc was written, in order, and then the README.
AllWritten ==
    /\ i = Len(details)
    /\ Len(written) = Len(details) + 1
    /\ \A k \in 1..Len(details) : written[k].path = DocPath(details[k].name)
    /\ written[Len(written)].path = ReadmePath
    /\ written[Len(written)].data = readme[1]

\* C6: a failed check sets the failure exit status, which is never reset,
\* and does not stop the run: the later rule docs are still read, spliced,
\* written and checked and the README is updated afterwards; without a
\* failed check the exit status is never set.
C6_ContinuesAfterFailure ==
    /\ [][exitCode = 1 => exitCode' = 1]_vars
    /\ [](exitCode = 1 <=> stderr # <<>>)
    /\ []StopsOnlyOnFatalError
    /\ [](pc = "done" => AllWritten)

C6_Witness ==
    /\ pc = "done"
    /\ Len(details) = 2
    /\ MessagesOf(details[1].name) # <<>>
    /\ MessagesOf(details[2].name) = <<>>
    /\ hasOptions(details[2].schema)
    /\ exitCode = 1
    /\ AllWritten

\* C7: with the check option enabled no file is ever written.
C7_CheckNeverWrites == check => written = <<>>

\* The entries that have the metadata the normalizer reads.
HasRequiredMetadata(nameAndRule) ==
    /\ nameAndRule.rule.meta # None
    /\ nameAndRule.rule.meta[1].docs # None

\* C9: normalization raises no error on any mapping: entries lacking
\* required metadata are left out silently and the others give one
\* RuleDetails each, in enumeration order.
C9_NormalizationNeverFails ==
    pc # "start" =>
        /\ thrown # "TypeError"
        /\ LET kept == SelectSeq(plugin.rules, HasRequiredMetadata)
           IN /\ Len(details) = Len(kept)
              /\ \A k \in 1..Len(kept) : details[k].name = kept[k].name

----------------------------------------------------------------------------
(* lib/legend.ts *)

\* Emojis stand for themselves by name.
EMOJI_CONFIG == "briefcase"
EMOJI_TYPE == "card-index-dividers"

RULE_TYPES == <<"problem", "suggestion", "layout">>

RULE_TYPE_MESSAGES_LEGEND ==
    [problem |-> <<"exclamation-mark",
                   " Identifies problems that could cause errors or unexpected behavior.">>,
     suggestion |-> <<"open-book", " Identifies potential improvements.">>,
     layout |-> <<"straight-ruler", " Focuses on code formatting.">>]

\* configEmojis.find(configEmoji => names.includes(configEmoji.config)):
\* the first entry for one of the names, if any.
FindAmong(emojis, names) ==
    LET passing == SelectSeq(emojis, LAMBDA e :
                       \E k \in 1..Len(names) : names[k] = e.config)
    IN IF Len(passing) = 0 THEN None ELSE Some(passing[1])

\* configEmojis.find(configEmoji => configEmoji.config === configName)
FindConfig(emojis, configName) ==
    LET passing == SelectSeq(emojis, LAMBDA e : e.config = configName)
    IN IF Len(passing) = 0 THEN None ELSE Some(passing[1])

\* found?.emoji is truthy
HasEmojiField(found) == found # None /\ found[1].emoji # ""

GenericConfigLine(url) ==
    << EMOJI_CONFIG, " ",
       IF url # None THEN <<"[Configurations](", url[1], ")">>
       ELSE <<"Configurations">>,
       " enabled in." >>

ConfigLine(emoji, configName, url) ==
    << emoji, " Enabled in the ", configName, " ",
       IF url # None THEN <<"[configuration](", url[1], ")">>
       ELSE <<"configuration">>,
       "." >>

\* The lines for the configs that have an emoji.
RECURSIVE ConfigLines(_, _, _)
ConfigLines(names, emojis, url) ==
    IF Len(names) = 0 THEN <<>>
    ELSE LET found == FindConfig(emojis, names[1])
         IN (IF ~HasEmojiField(found) THEN <<>>
             ELSE << ConfigLine(found[1].emoji, names[1], url) >>)
            \o ConfigLines(Tail(names), emojis, url)

\* The ignored configs are counted when deciding on the generic line.
LegendConfigsCountsIgnored(p, emojis, url, ignore) ==
    LET configNames == p.configs[1]
        configNamesWithoutIgnored ==
            SelectSeq(configNames, LAMBDA c : c \notin ignore)
        found == FindAmong(emojis, configNamesWithoutIgnored)
    IN (IF Len(configNames) > 1 \/ ~HasEmojiField(found)
        THEN << GenericConfigLine(url) >>
        ELSE <<>>)
       \o ConfigLines(configNamesWithoutIgnored, emojis, url)

\* LEGENDS[COLUMN_TYPE.CONFIGS] for a plugin that has configs
LegendConfigs(p, emojis, url, ignore) ==
    LET configNames == p.configs[1]
        configNamesWithoutIgnored ==
            SelectSeq(configNames, LAMBDA c : c \notin ignore)
        found == FindAmong(emojis, configNamesWithoutIgnored)
    IN (IF Len(configNamesWithoutIgnored) > 1 \/ ~HasEmojiField(found)
        THEN << GenericConfigLine(url) >>
        ELSE <<>>)
       \o ConfigLines(configNamesWithoutIgnored, emojis, url)

\* Object.values(rules).some(rule => typeof rule === 'object' &&
\* rule.meta.type === ruleType): "true", "false", or "throw" when the
\* meta of an object is undefined.
RECURSIVE SomeHasType(_, _)
SomeHasType(rules, ruleType) ==
    IF Len(rules) = 0 THEN "false"
    ELSE IF rules[1].typeof = "object"
         THEN IF rules[1].meta = None THEN "throw"
              ELSE IF rules[1].meta[1].type = Some(ruleType) THEN "true"
              ELSE SomeHasType(Tail(rules), ruleType)
    ELSE SomeHasType(Tail(rules), ruleType)

\* The loop of LEGENDS[COLUMN_TYPE.TYPE] from the t-th rule type on.
RECURSIVE LegendTypeFrom(_, _, _, _)
LegendTypeFrom(rules, t, hasAnyRuleType, acc) ==
    IF t > Len(RULE_TYPES) THEN [threw |-> FALSE, legends |-> acc]
    ELSE LET hasThisRuleType == SomeHasType(rules, RULE_TYPES[t])
         IN IF hasThisRuleType = "throw"
            THEN [threw |-> TRUE, legends |-> <<>>]
            ELSE IF hasThisRuleType = "true"
            THEN LegendTypeFrom(
                     rules, t + 1, TRUE,
                     (IF ~hasAnyRuleType
                      THEN Append(acc, <<EMOJI_TYPE, " The type of rule.">>)
                      ELSE acc)
                     \o << RULE_TYPE_MESSAGES_LEGEND[RULE_TYPES[t]] >>)
            ELSE LegendTypeFrom(rules, t + 1, hasAnyRuleType, acc)

\* LEGENDS[COLUMN_TYPE.TYPE] for a plugin that has rules
LegendType(p) == LegendTypeFrom(p.rules[1], 1, FALSE, <<>>)

ConfigNameVals == <<"recommended", "all", "style">>
EmojiVals == {"", "check-mark"}
UrlVals == {None, Some("https://example.com/configs")}

\* Sequences without repetition, of at most n elements of S.
DistinctSeqsUpTo(S, n) ==
    { q \in SeqsUpTo(S, n) : \A a, b \in 1..Len(q) : a # b => q[a] # q[b] }

ConfigNameSet == { ConfigNameVals[k] : k \in 1..Len(ConfigNameVals) }

\* ConfigEmojis values: at most one entry per config name.
ConfigEmojisVals ==
    { q \in SeqsUpTo([config : ConfigNameSet, emoji : EmojiVals],
                    MaxConfigEmojis) :
        \A a, b \in 1..Len(q) : a # b => q[a].config # q[b].config }

\* The rule values the TYPE legend may meet.
TypeRuleRecords ==
    { [typeof |-> "function", meta |-> None],
      [typeof |-> "object", meta |-> None] }
    \cup { [typeof |-> "object", meta |-> Some([type |-> t])] :
             t \in { None, Some("problem"), Some("suggestion"),
                     Some("layout"), Some("other") } }

ConfigsLegendInit ==
    /\ \E c \in { None } \cup
               { Some(q) : q \in DistinctSeqsUpTo(ConfigNameSet, MaxConfigs) } :
          legendPlugin = [configs |-> c, rules |-> Some(<<>>)]
    /\ configEmojis \in ConfigEmojisVals
    /\ ignoreConfig \in SUBSET ConfigNameSet
    /\ urlConfigs \in UrlVals
    /\ legends = <<>>
    /\ legendPc = "call"
    /\ SpliceIdle
    /\ GenerateIdle

\* A call of LEGENDS[COLUMN_TYPE.CONFIGS]
ConfigsLegend ==
    /\ legendPc = "call"
    /\ IF legendPlugin.configs = None
       THEN legendPc' = "threw" /\ UNCHANGED legends
       ELSE /\ legends' = LegendConfigs(legendPlugin, configEmojis,
                                        urlConfigs, ignoreConfig)
            /\ legendPc' = "returned"
    /\ UNCHANGED <<legendPlugin, configEmojis, ignoreConfig, urlConfigs>>
    /\ UNCHANGED <<spliceVars, generateVars>>

SpecConfigsLegend == ConfigsLegendInit /\ [][ConfigsLegend]_vars

TypeLegendInit ==
    /\ \E r \in { None } \cup
               { Some(q) : q \in SeqsUpTo(TypeRuleRecords, MaxTypeRules) } :
          legendPlugin = [configs |-> None, rules |-> r]
    /\ configEmojis = <<>>
    /\ ignoreConfig = {}
    /\ urlConfigs = None
    /\ legends = <<>>
    /\ legendPc = "call"
    /\ SpliceIdle
    /\ GenerateIdle

\* A call of LEGENDS[COLUMN_TYPE.TYPE]
TypeLegend ==
    /\ legendPc = "call"
    /\ IF legendPlugin.rules = None \/ LegendType(legendPlugin).threw
       THEN legendPc' = "threw" /\ UNCHANGED legends
       ELSE /\ legends' = LegendType(legendPlugin).legends
            /\ legendPc' = "returned"
    /\ UNCHANGED <<legendPlugin, configEmojis, ignoreConfig, urlConfigs>>
    /\ UNCHANGED <<spliceVars, generateVars>>

SpecTypeLegend == TypeLegendInit /\ [][TypeLegend]_vars

----------------------------------------------------------------------------
(* Claims about the legends *)

\* The configs of the plugin that are not ignored, in order.
ShownConfigs ==
    SelectSeq(legendPlugin.configs[1], LAMBDA c : c \notin ignoreConfig)

\* The emoji assigned to a config, "" when it has none.
EmojiOf(c) ==
    IF \E k \in 1..Len(configEmojis) : configEmojis[k].config = c
    THEN (CHOOSE e \in { configEmojis[k] : k \in 1..Len(configEmojis) } :
             e.config = c).emoji
    ELSE ""

\* One line per shown config that has an emoji, in order.
ExpectedConfigLines ==
    LET withEmoji == SelectSeq(ShownConfigs, LAMBDA c : EmojiOf(c) # "")
    IN [k \in 1..Len(withEmoji) |->
           ConfigLine(EmojiOf(withEmoji[k]), withEmoji[k], urlConfigs)]

\* C8 (as stated): the generic line is there if and only if more than one
\* shown config exists or the sole shown config has no emoji; then comes
\* one line per shown config with an emoji, in order, and nothing else.
C8_ConfigsLegendAsStated ==
    legendPc = "returned" =>
        legends =
            (IF \/ Len(ShownConfigs) > 1
                \/ Len(ShownConfigs) = 1 /\ EmojiOf(ShownConfigs[1]) = ""
             THEN << GenericConfigLine(urlConfigs) >>
             ELSE <<>>)
            \o ExpectedConfigLines

\* C8 (amended): the generic line is there unless exactly one shown config
\* exists and it has an emoji (so also when no shown config exists); then
\* comes one line per shown config with an emoji, in order, and nothing else.
C8_ConfigsLegend ==
    legendPc = "returned" =>
        legends =
            (IF Len(ShownConfigs) = 1 /\ EmojiOf(ShownConfigs[1]) # ""
             THEN <<>>
             ELSE << GenericConfigLine(urlConfigs) >>)
            \o ExpectedConfigLines

C8_Witness ==
    /\ legendPc = "returned"
    /\ Len(legendPlugin.configs[1]) = 2
    /\ Len(ShownConfigs) = 2
    /\ EmojiOf(ShownConfigs[1]) = ""
    /\ EmojiOf(ShownConfigs[2]) # ""
    /\ legends = << GenericConfigLine(urlConfigs),
                    ConfigLine(EmojiOf(ShownConfigs[2]), ShownConfigs[2],
                               urlConfigs) >>

\* The known categories found among the rules of the plugin.
CategoriesPresent ==
    { t \in { RULE_TYPES[k] : k \in 1..Len(RULE_TYPES) } :
        \E k \in 1..Len(legendPlugin.rules[1]) :
            LET rule == legendPlugin.rules[1][k]
            IN /\ rule.typeof = "object"
               /\ rule.meta # None
               /\ rule.meta[1].type = Some(t) }

\* C10: for every plugin with a rules mapping the TYPE legend is empty when
\* no rule has a known category, and otherwise the generic line once, first,
\* then one line per known category present, in the order of RULE_TYPES.
C10_TypeLegend ==
    (legendPc # "call" /\ legendPlugin.rules # None) =>
        /\ legendPc = "returned"
        /\ LET present == SelectSeq(RULE_TYPES,
                                    LAMBDA t : t \in CategoriesPresent)
           IN legends =
                  IF Len(present) = 0 THEN <<>>
                  ELSE << <<EMOJI_TYPE, " The type of rule.">> >>
                       \o [k \in 1..Len(present) |->
                              RULE_TYPE_MESSAGES_LEGEND[present[k]]]

----------------------------------------------------------------------------
(* The splicer on its own: any document, any new header, any marker *)

LineVals ==
    { <<>>, <<"#"," ","T">>, <<"#","T">>, <<"x">>, END_RULE_HEADER_MARKER }

MarkerVals == { END_RULE_HEADER_MARKER, <<"x">> }

SpliceInit ==
    /\ GenerateIdle
    /\ LegendIdle
    /\ lines \in SeqsUpTo(LineVals, MaxLines)
    /\ newHeaderLines \in SeqsUpTo(LineVals, MaxHeaderLines)
    /\ marker \in MarkerVals
    /\ lines0 = lines
    /\ lines1 = lines
    /\ calls = 0

\* replaceOrCreateHeader(lines, newHeaderLines, marker), first call
SpliceOnce ==
    /\ calls = 0
    /\ lines' = replaceOrCreateHeader(lines, newHeaderLines, marker)
    /\ lines1' = lines'
    /\ calls' = 1
    /\ UNCHANGED <<newHeaderLines, marker, lines0>>
    /\ UNCHANGED <<generateVars, legendVars>>

\* the same call again on the result of the first
SpliceAgain ==
    /\ calls = 1
    /\ lines' = replaceOrCreateHeader(lines, newHeaderLines, marker)
    /\ calls' = 2
    /\ UNCHANGED <<newHeaderLines, marker, lines0, lines1>>
    /\ UNCHANGED <<generateVars, legendVars>>

SpliceNext == SpliceOnce \/ SpliceAgain

SpecSplice == SpliceInit /\ [][SpliceNext]_vars

----------------------------------------------------------------------------
(* Claims about the splicer *)

\* Index (1-based) of the first line equal to the marker, 0 when none.
FirstMarker(ls, mk) ==
    IF \E k \in 1..Len(ls) : ls[k] = mk
    THEN CHOOSE k \in 1..Len(ls) :
            ls[k] = mk /\ \A j \in 1..(k - 1) : ls[j] # mk
    ELSE 0

\* The new header ends with the marker and has it nowhere else.
HeaderEndsWithOnlyMarker ==
    /\ Len(newHeaderLines) > 0
    /\ newHeaderLines[Len(newHeaderLines)] = marker
    /\ \A k \in 1..(Len(newHeaderLines) - 1) : newHeaderLines[k] # marker

\* C1 (as stated): for every document, new header and marker, calling
\* replaceOrCreateHeader twice gives the same document as calling it once.
C1_IdempotentAlways == calls = 2 => lines = lines1

\* C1 (amended): when the new header ends with the marker and contains it
\* nowhere else, calling replaceOrCreateHeader twice gives the same document
\* as calling it once.
C1_IdempotentWithMarker ==
    (calls = 2 /\ HeaderEndsWithOnlyMarker) => lines = lines1

C1_Witness ==
    /\ calls = 2
    /\ HeaderEndsWithOnlyMarker
    /\ lines1 # lines0
    /\ FirstMarker(lines0, marker) > 1
    /\ lines = lines1

\* C2: with the marker present, the lines 0 through the first marker line
\* are replaced by the new header and every later line is kept, in order,
\* right after the new header.
C2_ReplacesThroughFirstMarker ==
    (calls = 1 /\ FirstMarker(lines0, marker) > 0) =>
        lines = newHeaderLines
                \o SubSeq(lines0, FirstMarker(lines0, marker) + 1, Len(lines0))

C2_Witness ==
    /\ calls = 1
    /\ FirstMarker(lines0, marker) = 1
    /\ Len(lines0) = 3
    /\ lines0[2] = <<"#"," ","T">>
    /\ lines0[3] = marker
    /\ lines = newHeaderLines \o <<lines0[2], lines0[3]>>

\* C3: with no marker, the result is the new header followed by the
\* original lines, less the first line when (and only when) it starts
\* with "# "; an empty document gives exactly the new header.
C3_PrependsWithoutMarker ==
    (calls = 1 /\ FirstMarker(lines0, marker) = 0) =>
        /\ (Len(lines0) > 0 /\ StartsWith(lines0[1], HEADING_SIGIL))
              => lines = newHeaderLines \o Tail(lines0)
        /\ ~(Len(lines0) > 0 /\ StartsWith(lines0[1], HEADING_SIGIL))
              => lines = newHeaderLines \o lines0
        /\ lines0 = <<>> => lines = newHeaderLines

C3_Witness ==
    /\ calls = 1
    /\ FirstMarker(lines0, marker) = 0
    /\ Len(lines0) = 3
    /\ lines0[1] = <<"#"," ","T">>
    /\ lines0[2] = <<"#"," ","T">>
    /\ lines = newHeaderLines \o Tail(lines0)

====
